---- MODULE Spec2Model ----
(***************************************************************************)
(* WebChord: chord/scale model (music/chords), procedural progression      *)
(* generator (generativeEngine) as state machines.                         *)
(*                                                                         *)
(* Numbers.  JavaScript numbers are modelled by exact scaled integers:     *)
(*   probabilities, tensions and density in hundredths (0.30 -> 30),       *)
(*   creativity in tenths (0.5 -> 5),                                      *)
(*   velocity in ten-thousandths, swing and stagger in thousandths,        *)
(*   a Math.random() result in thousandths (0 .. 999).                     *)
(* NaN (0/0 in the tension curves) is the value NaN below.                 *)
(***************************************************************************)
EXTENDS Integers, Sequences, FiniteSets, TLC

VARIABLES
    fn,                   \* the function under call ("batch" for the generator run)
    args,                 \* its arguments
    ret,                  \* [status |-> "pending" | "ok" | "throw", val |-> result]
    pc,                   \* position inside generateProceduralProgression
    config,               \* GenerationConfig of the run
    tensionValues,        \* generateTensionCurve(slots, tensionCurve)
    densityMap,           \* generateDensityMap(slots, density, rhythmicStyle)
    phraseMap,            \* generatePhraseStructure(phraseStructure, slots)
    result,               \* GenerativeSlot[] built so far
    previousChord,        \* loop variable: number | null
    secondPreviousChord,  \* loop variable: number | null
    i,                    \* loop index
    chordHistory,         \* ChordSuggestion component: useState<ChordHistory[]>
    suggestions,          \* useState<ChordSuggestionType[]>
    stats,                \* useState({averageTiming, consistency, predictability})
    showFeedback,         \* useState(false)
    feedbackMessage,      \* useState(''): the template drawn and what it shows
    effectDue,            \* the effect on [chordHistory, bpm] has yet to run
    hideDue,              \* some setTimeout(() => setShowFeedback(false)) is pending
    clock,                \* performance.now(), counted in events
    received              \* the chordPlayed events handled since the last clear

vars == <<fn, args, ret, pc, config, tensionValues, densityMap, phraseMap,
          result, previousChord, secondPreviousChord, i,
          chordHistory, suggestions, stats, showFeedback, feedbackMessage,
          effectDue, hideDue, clock, received>>

callVars == <<fn, args, ret>>

batchVars == <<pc, config, tensionValues, densityMap, phraseMap,
               result, previousChord, secondPreviousChord, i>>

hostVars == <<chordHistory, suggestions, stats, showFeedback, feedbackMessage,
              effectDue, hideDue, clock, received>>

\* JavaScript's undefined (a missing string), null (a missing degree: 0 is no
\* scale degree) and NaN (no tension or velocity is negative).
undefined == "undefined"

null == 0

NaN == 0 - 1

Pending == [status |-> "pending", val |-> <<>>]

Returned(v) == [status |-> "ok", val |-> v]

Thrown == [status |-> "throw", val |-> <<>>]

\* The variables of the generator while a plain function is under call.
BatchIdle ==
    /\ pc = "idle"
    /\ config = <<>>
    /\ tensionValues = <<>>
    /\ densityMap = <<>>
    /\ phraseMap = <<>>
    /\ result = <<>>
    /\ previousChord = null
    /\ secondPreviousChord = null
    /\ i = 0

\* The variables of a function call while the generator runs.
CallIdle ==
    /\ fn = "batch"
    /\ args = <<>>
    /\ ret = Pending

\* The state of the ChordSuggestion component as useState initialises it.
NoStats == [averageTiming |-> [num |-> 0, den |-> 1], consistency |-> 0,
            predictability |-> [num |-> 0, den |-> 1]]

\* feedbackMessage '': no template drawn yet.
NoMessage == [template |-> 0, rank |-> 0, percent |-> 0]

HostState ==
    /\ chordHistory = <<>>
    /\ suggestions = <<>>
    /\ stats = NoStats
    /\ showFeedback = FALSE
    /\ feedbackMessage = NoMessage
    /\ hideDue = FALSE
    /\ clock = 0
    /\ received = <<>>

\* The component while it is not mounted.
HostIdle ==
    /\ HostState
    /\ effectDue = FALSE

(***************************************************************************)
(* Sequence helpers (Array.prototype.map / reduce / filter).               *)
(***************************************************************************)
RECURSIVE SumSeq(_)
SumSeq(s) == IF s = <<>> THEN 0 ELSE Head(s) + SumSeq(Tail(s))

CountTrue(s) == Cardinality({k \in 1..Len(s) : s[k] = TRUE})

Min(a, b) == IF a < b THEN a ELSE b

Max(a, b) == IF a > b THEN a ELSE b

Abs(x) == IF x < 0 THEN 0 - x ELSE x

(***************************************************************************)
(* music/chords                                                            *)
(***************************************************************************)
NOTES == <<"C", "C#", "D", "D#", "E", "F", "F#", "G", "G#", "A", "A#", "B">>

Keys == {NOTES[k] : k \in 1..Len(NOTES)}

MAJOR_SCALE == <<0, 2, 4, 5, 7, 9, 11>>

CHORD_INTERVALS ==
    [major |-> <<0, 4, 7>>,
     minor |-> <<0, 3, 7>>,
     dom7  |-> <<0, 4, 7, 10>>,
     maj7  |-> <<0, 4, 7, 11>>,
     min7  |-> <<0, 3, 7, 10>>,
     sus2  |-> <<0, 2, 7>>,
     sus4  |-> <<0, 5, 7>>,
     aug   |-> <<0, 4, 8>>,
     dim   |-> <<0, 3, 6>>,
     maj9  |-> <<0, 4, 7, 11, 14>>,
     min9  |-> <<0, 3, 7, 10, 14>>,
     maj6  |-> <<0, 4, 7, 9>>]

ChordTypes == DOMAIN CHORD_INTERVALS

NASHVILLE_CHORDS ==
    <<"major", "minor", "minor", "major", "major", "minor", "dim">>

\* NOTES.indexOf(note), 0-based.
getNoteIndex(note) == (CHOOSE k \in 1..Len(NOTES) : NOTES[k] = note) - 1

\* Mutant of MidiNote: the octave carry of a pitch that wraps past B is dropped.
MidiNote_NoCarry(chordRootSemitones, interval, octave) ==
    (octave + 1) * 12 + ((chordRootSemitones + interval) % 12)

\* One pitch of the chord: the body of intervals.map(...).
MidiNote(chordRootSemitones, interval, octave) ==
    LET semitones == chordRootSemitones + interval
        noteIndex == semitones % 12
        octaveOffset == semitones \div 12
    IN  (octave + 1) * 12 + noteIndex + (octaveOffset * 12)

\* Mutant of Invert: the shifted note is pushed a major seventh up, not an octave.
RECURSIVE Invert_Seventh(_, _)
Invert_Seventh(notes, n) ==
    IF n <= 0 THEN notes
    ELSE Invert_Seventh(Append(Tail(notes), Head(notes) + 11), n - 1)

\* Mutant of Invert: the second note is the one moved up an octave.
RECURSIVE Invert_Second(_, _)
Invert_Second(notes, n) ==
    IF n <= 0 THEN notes
    ELSE Invert_Second(Append(<<Head(notes)>> \o Tail(Tail(notes)), notes[2] + 12),
                       n - 1)

\* inverted.shift(); inverted.push(note + 12), `n` times.
RECURSIVE Invert(_, _)
Invert(notes, n) ==
    IF n <= 0 THEN notes
    ELSE Invert(Append(Tail(notes), Head(notes) + 12), n - 1)

\* Mutant of InversionApplies: the upper limit of the guard is missing.
InversionApplies_NoUpper(inversion, size) == inversion > 0

\* The guard of the inversion block.
InversionApplies(inversion, size) == inversion > 0 /\ inversion < size

\* The guard that throws.
InvalidDegree(scaleDegree) == scaleDegree < 1 \/ scaleDegree > 7

\* generateChord past its degree guard.
ChordNotes(key, scaleDegree, chordType, inversion, octave) ==
    LET keyIndex == getNoteIndex(key)
        scaleRootSemitones == MAJOR_SCALE[scaleDegree]
        chordRootSemitones == (keyIndex + scaleRootSemitones) % 12
        baseChordType == IF chordType = undefined
                         THEN NASHVILLE_CHORDS[scaleDegree]
                         ELSE chordType
        intervals == IF baseChordType \in DOMAIN CHORD_INTERVALS
                     THEN CHORD_INTERVALS[baseChordType]
                     ELSE CHORD_INTERVALS.major
        midiNotes == [k \in 1..Len(intervals) |->
                        MidiNote(chordRootSemitones, intervals[k], octave)]
    IN  IF InversionApplies(inversion, Len(midiNotes))
        THEN Invert(midiNotes, inversion)
        ELSE midiNotes

\* Mutant of generateChord: an out-of-range degree is clamped into 1..7.
generateChord_Clamp(key, scaleDegree, chordType, inversion, octave) ==
    LET clamped == IF scaleDegree < 1 THEN 1
                   ELSE IF scaleDegree > 7 THEN 7 ELSE scaleDegree
    IN  Returned(ChordNotes(key, clamped, chordType, inversion, octave))

generateChord(key, scaleDegree, chordType, inversion, octave) ==
    IF InvalidDegree(scaleDegree)
    THEN Thrown
    ELSE Returned(ChordNotes(key, scaleDegree, chordType, inversion, octave))

ChordModTypes ==
    {"maj/min", "7th", "maj7/min7", "maj9/min9", "sus4", "sus2/add6", "dim", "aug"}

modMap ==
    [m \in ChordModTypes |->
        CASE m = "maj/min"   -> [major |-> "minor", minor |-> "major"]
          [] m = "7th"       -> [major |-> "dom7", minor |-> "min7"]
          [] m = "maj7/min7" -> [major |-> "maj7", minor |-> "min7",
                                 dom7 |-> "maj7", min7 |-> "min7"]
          [] m = "maj9/min9" -> [major |-> "maj9", minor |-> "min9",
                                 maj7 |-> "maj9", min7 |-> "min9"]
          [] m = "sus4"      -> [major |-> "sus4", minor |-> "sus4"]
          [] m = "sus2/add6" -> [major |-> "sus2", minor |-> "maj6"]
          [] m = "dim"       -> [major |-> "dim", minor |-> "dim"]
          [] m = "aug"       -> [major |-> "aug", minor |-> "aug"]]

\* modMap[modification]?.[baseType]
ModLookup(baseType, modification) ==
    IF modification \in DOMAIN modMap
    THEN IF baseType \in DOMAIN modMap[modification]
         THEN modMap[modification][baseType]
         ELSE undefined
    ELSE undefined

\* Mutant of OrElse: the fallback operand is dropped.
OrElse_NoFallback(a, b) == a

\* a || b on strings
OrElse(a, b) == IF a = undefined \/ a = "" THEN b ELSE a

applyChordModification(baseType, modification) ==
    OrElse(ModLookup(baseType, modification), baseType)

(***************************************************************************)
(* Calls of the chord model with arguments drawn from bounded sets.        *)
(***************************************************************************)
MinDegreeArg == 0 - 1

MaxDegreeArg == 9

MinInversionArg == 0 - 2

MaxInversionArg == 6

DefaultOctave == 3

MaxOctave == 4

ChordTypeArgs == ChordTypes \cup {undefined}

ModArgs == ChordModTypes \cup {"none"}

GenerateChordArgs ==
    [key : Keys,
     scaleDegree : MinDegreeArg..MaxDegreeArg,
     chordType : ChordTypeArgs,
     inversion : MinInversionArg..MaxInversionArg,
     octave : DefaultOctave..MaxOctave]

ApplyModArgs == [baseType : ChordTypes, modification : ModArgs]

InitChords ==
    /\ \/ fn = "generateChord" /\ args \in GenerateChordArgs
       \/ fn = "applyChordModification" /\ args \in ApplyModArgs
    /\ ret = Pending
    /\ BatchIdle
    /\ HostIdle

CallGenerateChord ==
    /\ fn = "generateChord"
    /\ ret.status = "pending"
    /\ ret' = generateChord(args.key, args.scaleDegree, args.chordType,
                            args.inversion, args.octave)
    /\ UNCHANGED <<fn, args, batchVars, hostVars>>

CallApplyChordModification ==
    /\ fn = "applyChordModification"
    /\ ret.status = "pending"
    /\ ret' = Returned(applyChordModification(args.baseType, args.modification))
    /\ UNCHANGED <<fn, args, batchVars, hostVars>>

NextChords == CallGenerateChord \/ CallApplyChordModification

SpecChords == InitChords /\ [][NextChords]_vars

(***************************************************************************)
(* generativeEngine: tables                                                *)
(***************************************************************************)
CHORD_TENSION_MAP == <<10, 40, 50, 30, 80, 40, 90>>

MARKOV_2ND_ORDER ==
    (<<1, 5>> :> (6 :> 50 @@ 4 :> 30 @@ 1 :> 15 @@ 2 :> 5)) @@
    (<<5, 6>> :> (4 :> 60 @@ 1 :> 25 @@ 5 :> 10 @@ 2 :> 5)) @@
    (<<6, 4>> :> (1 :> 45 @@ 5 :> 40 @@ 2 :> 10 @@ 6 :> 5)) @@
    (<<4, 1>> :> (5 :> 50 @@ 6 :> 25 @@ 4 :> 15 @@ 2 :> 10)) @@
    (<<2, 5>> :> (1 :> 70 @@ 6 :> 15 @@ 4 :> 10 @@ 3 :> 5)) @@
    (<<6, 2>> :> (5 :> 60 @@ 1 :> 25 @@ 4 :> 10 @@ 6 :> 5)) @@
    (<<1, 4>> :> (5 :> 50 @@ 1 :> 25 @@ 2 :> 15 @@ 6 :> 10)) @@
    (<<4, 5>> :> (1 :> 70 @@ 6 :> 20 @@ 4 :> 5 @@ 3 :> 5)) @@
    (<<1, 3>> :> (6 :> 40 @@ 4 :> 30 @@ 2 :> 20 @@ 5 :> 10)) @@
    (<<3, 6>> :> (2 :> 40 @@ 4 :> 35 @@ 5 :> 15 @@ 1 :> 10))

\* Row d, column n: the weight (hundredths) of the transition d -> n.
MARKOV_1ST_ORDER ==
    <<  <<5, 15, 3, 30, 25, 20, 2>>,
        <<20, 1, 3, 15, 50, 10, 1>>,
        <<7, 15, 2, 25, 10, 40, 1>>,
        <<30, 15, 3, 5, 35, 10, 2>>,
        <<50, 8, 1, 12, 3, 25, 1>>,
        <<15, 25, 5, 30, 20, 3, 2>>,
        <<70, 1, 15, 1, 3, 10, 0>>  >>

\* The weights set when there is no previous chord.
OPENING_WEIGHTS == (1 :> 60 @@ 5 :> 30 @@ 4 :> 10)

EmptyWeights == [d \in {} |-> 0]

(***************************************************************************)
(* generativeEngine: tension curves                                        *)
(***************************************************************************)
\* Math.sin(Math.PI * num / den) of a first-quadrant angle, in hundredths.
SinQuadrant(num, den) ==
    CASE num = 0 -> 0
      [] 2 * num = den -> 100
      [] 3 * num = den -> 87
      [] 4 * num = den -> 71
      [] 5 * num = den -> 59
      [] 5 * num = 2 * den -> 95
      [] 6 * num = den -> 50

\* Math.sin(Math.PI * num / den) in hundredths, num >= 0, den >= 1.
SinPi(num, den) ==
    LET n == num % (2 * den)
        sign == IF n > den THEN 0 - 1 ELSE 1
        m == IF n > den THEN n - den ELSE n
        q == IF 2 * m > den THEN den - m ELSE m
    IN  sign * SinQuadrant(q, den)

Clamp(lo, hi, x) == Max(lo, Min(hi, x))

\* (Math.random() - 0.5) * 0.3 in hundredths, r in thousandths.
TensionNoise(r) == ((r - 500) * 3) \div 100

\* generateTensionCurve(length, type); draws[k] is the Math.random() result of
\* iteration k - 1 of the 'random' curve.  i / (length - 1) is 0/0 = NaN for
\* length 1.
generateTensionCurve(length, type, draws) ==
    [k \in 1..length |->
        LET idx == k - 1
        IN  CASE type = "arc" ->
                    IF length = 1 THEN NaN ELSE SinPi(idx, length - 1)
              [] type = "wave" ->
                    IF length = 1 THEN NaN
                    ELSE (SinPi(2 * idx, length - 1) + 100) \div 2
              [] type = "buildup" ->
                    IF length = 1 THEN NaN ELSE (100 * idx) \div (length - 1)
              [] type = "release" ->
                    IF length = 1 THEN NaN
                    ELSE 100 - ((100 * idx) \div (length - 1))
              [] type = "random" ->
                    Clamp(0, 100, ((SinPi(3 * idx, length) + 100) \div 2)
                                      + TensionNoise(draws[k]))
              [] OTHER -> 50]

(***************************************************************************)
(* generativeEngine: rhythm, density, phrase structure                     *)
(***************************************************************************)
\* Mutant of Bucket: Math.round in place of Math.floor.
Bucket_Round(idx, steps, pulses) == (2 * idx * pulses + steps) \div (2 * steps)

\* bucket[i] = Math.floor((i * pulses) / steps)
Bucket(idx, steps, pulses) == (idx * pulses) \div steps

euclideanRhythm(steps, pulses) ==
    IF pulses >= steps THEN [k \in 1..steps |-> TRUE]
    ELSE IF pulses = 0 THEN [k \in 1..steps |-> FALSE]
    ELSE [k \in 1..steps |->
            LET idx == k - 1
            IN  Bucket(idx, steps, pulses) #
                    (IF idx > 0 THEN Bucket(idx - 1, steps, pulses) ELSE 0 - 1)]

\* Mutant of RoundedPulses: Math.floor in place of Math.round.
RoundedPulses_Floor(length, targetDensity) == (length * targetDensity) \div 100

\* Math.round(length * targetDensity): round half up.
RoundedPulses(length, targetDensity) == (2 * length * targetDensity + 100) \div 200

offBeats == <<1, 3, 6, 9, 11, 13>>

sparsePositions == <<0, 4, 8, 12>>

\* Mutant of TemplateMap: every template position inside the map is set.
TemplateMap_AllEntries(length, pulsesCount, template) ==
    [k \in 1..length |-> \E t \in 1..Len(template) : template[t] = k - 1]

\* The positions template[0 .. min(pulsesCount, template.length) - 1] that lie
\* inside the map are set.
TemplateMap(length, pulsesCount, template) ==
    [k \in 1..length |->
        \E t \in 1..Min(pulsesCount, Len(template)) : template[t] = k - 1]

\* Math.random() < targetDensity, r in thousandths.
RandomHit(r, targetDensity) == r < targetDensity * 10

\* generateDensityMap(length, targetDensity, rhythmStyle); draws[k] is the
\* Math.random() result for slot k - 1 of the 'random' (and default) branch.
generateDensityMap(length, targetDensity, rhythmStyle, draws) ==
    LET pulsesCount == Max(1, RoundedPulses(length, targetDensity))
    IN  CASE rhythmStyle = "steady" -> euclideanRhythm(length, pulsesCount)
          [] rhythmStyle = "syncopated" -> TemplateMap(length, pulsesCount, offBeats)
          [] rhythmStyle = "euclidean" -> euclideanRhythm(length, pulsesCount)
          [] rhythmStyle = "sparse" ->
                TemplateMap(length, pulsesCount, sparsePositions)
          [] OTHER -> [k \in 1..length |-> RandomHit(draws[k], targetDensity)]

\* generatePhraseStructure(type, slots)
generatePhraseStructure(type, slots) ==
    LET phrasesPerSection == Max(2, slots \div 4)
    IN  CASE type = "AABA" ->
                LET flat == [k \in 1..(4 * phrasesPerSection) |->
                                LET section == (k - 1) \div phrasesPerSection
                                    idx == (k - 1) % phrasesPerSection
                                IN  IF section = 2 THEN idx + phrasesPerSection
                                    ELSE idx]
                IN  SubSeq(flat, 1, Min(slots, Len(flat)))
          [] type = "ABAB" ->
                LET half == slots \div 2
                IN  [k \in 1..slots |->
                        IF k - 1 < half THEN (k - 1) % phrasesPerSection
                        ELSE ((k - 1) % phrasesPerSection) + phrasesPerSection]
          [] type = "ABAC" ->
                LET third == slots \div 3
                IN  [k \in 1..slots |->
                        IF k - 1 < third THEN k - 1
                        ELSE IF k - 1 < third * 2
                             THEN (k - 1) - third + phrasesPerSection
                             ELSE (k - 1) - third * 2]
          [] type = "question-answer" -> [k \in 1..slots |-> (k - 1) \div 2]
          [] OTHER -> [k \in 1..slots |-> k - 1]

(***************************************************************************)
(* Calls of the rhythm functions with arguments drawn from bounded sets.   *)
(***************************************************************************)
MaxSteps == 16

EuclideanArgs == [steps : 1..MaxSteps, pulses : 0..(MaxSteps + 1)]

InitRhythm ==
    /\ fn = "euclideanRhythm"
    /\ args \in EuclideanArgs
    /\ ret = Pending
    /\ BatchIdle
    /\ HostIdle

CallEuclideanRhythm ==
    /\ fn = "euclideanRhythm"
    /\ ret.status = "pending"
    /\ ret' = Returned(euclideanRhythm(args.steps, args.pulses))
    /\ UNCHANGED <<fn, args, batchVars, hostVars>>

NextRhythm == CallEuclideanRhythm

SpecRhythm == InitRhythm /\ [][NextRhythm]_vars

(***************************************************************************)
(* generativeEngine: selectChordForTension                                 *)
(*                                                                         *)
(* A weight is kept as an exact integer over one common denominator:       *)
(*   table weight (1/100) x tension factor (1/100) x jitter factor (1/200) *)
(*   x uncommon-chord factor (1/10).                                       *)
(* Object keys that are integers are visited in ascending order, which is  *)
(* the order of Object.keys / Object.values / Object.entries here.         *)
(* The code computes in doubles: the only place where their rounding can   *)
(* change the outcome is the selection loop, whose remainder after the     *)
(* last entry is an exact 0 here and may be a positive ulp there; that     *)
(* outcome is the draw SelectGrid + 1 below.                               *)
(***************************************************************************)
Degrees == 1..7

\* The base probabilities copied into `weights`.
Transitions(previous, secondPrevious) ==
    IF previous # null
    THEN IF /\ secondPrevious # null
            /\ <<secondPrevious, previous>> \in DOMAIN MARKOV_2ND_ORDER
         THEN MARKOV_2ND_ORDER[<<secondPrevious, previous>>]
         ELSE IF previous \in DOMAIN MARKOV_1ST_ORDER
              THEN [d \in Degrees |-> MARKOV_1ST_ORDER[previous][d]]
              ELSE EmptyWeights
    ELSE OPENING_WEIGHTS

\* 1 + tensionMatch * 2, in hundredths.
TensionFactor(targetTension, degree) ==
    LET chordTension == CHORD_TENSION_MAP[degree]
        tensionDiff == Abs(targetTension - chordTension)
        tensionMatch == 100 - tensionDiff
    IN  100 + tensionMatch * 2

\* randomBoost = 1 + Math.random() * creativity * 0.5, in two-hundredths
\* (the draw and creativity in tenths).
JitterFactor(creativity, draw) == 200 + draw * creativity

\* (1 + creativity) for iii and vii, in tenths.
UncommonFactor(creativity, degree) ==
    IF degree \in {3, 7} THEN 10 + creativity ELSE 10

\* The weights after tension matching and creativity jitter; jitter[d] is the
\* Math.random() result drawn for degree d.
Reweighted(targetTension, previous, secondPrevious, creativity, jitter) ==
    LET transitions == Transitions(previous, secondPrevious)
    IN  [d \in DOMAIN transitions |->
            transitions[d] * TensionFactor(targetTension, d)
                * (IF creativity > 0
                   THEN JitterFactor(creativity, jitter[d]) * UncommonFactor(creativity, d)
                   ELSE JitterFactor(0, 0) * UncommonFactor(0, d))]

RECURSIVE TotalFrom(_, _)
TotalFrom(weights, d) ==
    IF d > 7 THEN 0
    ELSE (IF d \in DOMAIN weights THEN weights[d] ELSE 0) + TotalFrom(weights, d + 1)

\* Object.values(weights).reduce((sum, w) => sum + w, 0)
TotalWeight(weights) == TotalFrom(weights, 1)

\* The degree returned when the selection loop ends without a return.
SelectFallback == 1

\* Mutant of Walk: the loop's fallback is the dominant, not the tonic.
RECURSIVE Walk_FallbackDominant(_, _, _)
Walk_FallbackDominant(weights, random, d) ==
    IF d > 7 THEN 5
    ELSE IF d \notin DOMAIN weights THEN Walk_FallbackDominant(weights, random, d + 1)
    ELSE IF random - weights[d] <= 0 THEN d
    ELSE Walk_FallbackDominant(weights, random - weights[d], d + 1)

\* for (const [degreeStr, weight] of Object.entries(weights)) { random -= weight;
\* if (random <= 0) return degree }  return 1
RECURSIVE Walk(_, _, _)
Walk(weights, random, d) ==
    IF d > 7 THEN SelectFallback
    ELSE IF d \notin DOMAIN weights THEN Walk(weights, random, d + 1)
    ELSE IF random - weights[d] <= 0 THEN d
    ELSE Walk(weights, random - weights[d], d + 1)

\* The draws of the weighted selection.  Draw u < SelectGrid is Math.random() =
\* u / SelectGrid; draw SelectGrid is a result just below 1 whose walk ends at
\* the last entry; draw SelectGrid + 1 is a result within a few ulps of 1 for
\* which the rounded subtractions of the loop leave a positive remainder after
\* the last entry (pair 4-1, creativity 0.5, tension 0.7203671053680812,
\* jitter draws 0.6950815223880328, 0.4223766622515036, 0.08903418970329013,
\* 0.7447758224857753 and Math.random() = 1 - 2^-52 leave 1.1e-16).
SelectGrid == 20

\* Whether the rounded subtractions can leave that remainder.  With jitter the
\* weights are products with random doubles, and for every candidate set and
\* every tension some jitter leaves it.  Without jitter it depends on the exact
\* double of the tension (pair 1-3 at 0.20610737385376332 leaves 2.2e-16); the
\* tensions of this model are hundredths, where pairs 1-3 and 4-1 leave none.
RoundingRemainder(creativity) == creativity > 0

SelectDraws(creativity) ==
    IF RoundingRemainder(creativity) THEN 0..(SelectGrid + 1) ELSE 0..SelectGrid

\* `random` as the loop sees it: Math.random() * totalWeight, and for the
\* rounding draw a value the subtractions do not bring down to zero.
RandomPoint(totalWeight, u) ==
    IF u > SelectGrid THEN totalWeight + 1
    ELSE IF u = SelectGrid THEN Max(totalWeight - 1, 0)
    ELSE (totalWeight \div SelectGrid) * u

\* selectChordForTension.  A NaN target makes every weight, their sum and
\* `random` NaN; `random <= 0` is then false for every entry and the loop ends
\* without a return.
selectChordForTension(targetTension, previous, secondPrevious, creativity, jitter, u) ==
    IF targetTension = NaN
    THEN SelectFallback
    ELSE LET weights == Reweighted(targetTension, previous,
                                   secondPrevious, creativity, jitter)
         IN  Walk(weights, RandomPoint(TotalWeight(weights), u), 1)

\* The Math.random() results (tenths) modelled for the jitter of one selection:
\* no degree boosted, or exactly one degree boosted by the largest draw.
MaxJitterDraw == 9

JitterChoices(creativity, keys) ==
    IF creativity > 0
    THEN {[d \in keys |-> IF d = b THEN MaxJitterDraw ELSE 0] : b \in keys \cup {0}}
    ELSE {[d \in keys |-> 0]}

(***************************************************************************)
(* Calls of selectChordForTension with arguments and draws from bounded    *)
(* sets.  The function takes any number as previous chord.                 *)
(***************************************************************************)
MaxChordArg == 8

TensionArgs == {0, 50, 100, NaN}

CreativityArgs == {0, 10}

SelectArgs ==
    {a \in [targetTension : TensionArgs,
            previousChord : {null} \cup 1..MaxChordArg,
            secondPreviousChord : {null} \cup Degrees,
            creativity : CreativityArgs,
            boosted : 0..7,
            u : 0..(SelectGrid + 1)] :
        /\ a.u \in SelectDraws(a.creativity)
        /\ a.creativity = 0 => a.boosted = 0
        /\ a.boosted # 0 =>
               a.boosted \in DOMAIN Transitions(a.previousChord, a.secondPreviousChord)}

\* The jitter draws of a call: degree `boosted` gets the largest draw.
JitterOf(a) ==
    [d \in DOMAIN Transitions(a.previousChord, a.secondPreviousChord) |->
        IF d = a.boosted THEN MaxJitterDraw ELSE 0]

InitSelect ==
    /\ fn = "selectChordForTension"
    /\ args \in SelectArgs
    /\ ret = Pending
    /\ BatchIdle
    /\ HostIdle

CallSelectChordForTension ==
    /\ fn = "selectChordForTension"
    /\ ret.status = "pending"
    /\ ret' = Returned(selectChordForTension(args.targetTension, args.previousChord,
                           args.secondPreviousChord, args.creativity,
                           JitterOf(args), args.u))
    /\ UNCHANGED <<fn, args, batchVars, hostVars>>

NextSelect == CallSelectChordForTension

SpecSelect == InitSelect /\ [][NextSelect]_vars

(***************************************************************************)
(* generativeEngine: generateProceduralProgression, one step per loop      *)
(* iteration.  pc: "start" (entered), "loop" (the for loop, i is its       *)
(* index), "done" (returned).                                              *)
(***************************************************************************)
MaxSlots == 3

\* The Math.random() results (thousandths) modelled outside the selection:
\* both ends of the range where a draw decides something (the density of a
\* slot, the duration coin, the cadence coin, the tension noise), the middle of
\* the range where it only perturbs a value (velocity, swing, stagger).
RandomDraws == {0, 999}

NoiseDraws == {500}

\* The base config that presets are merged over.
baseConfig ==
    [density |-> 50, tensionCurve |-> "arc", rhythmicStyle |-> "steady",
     phraseStructure |-> "ABAB", creativity |-> 5]

GENERATIVE_PRESETS ==
    [PopHit |->
        [density |-> 50, tensionCurve |-> "arc", rhythmicStyle |-> "steady",
         phraseStructure |-> "ABAB", creativity |-> 2],
     AmbientChill |->
        [density |-> 30, tensionCurve |-> "wave", rhythmicStyle |-> "sparse",
         phraseStructure |-> "through-composed", creativity |-> 5],
     EnergeticEDM |->
        [density |-> 75, tensionCurve |-> "buildup", rhythmicStyle |-> "syncopated",
         phraseStructure |-> "AABA", creativity |-> 4],
     JazzExploration |->
        [density |-> 60, tensionCurve |-> "random", rhythmicStyle |-> "syncopated",
         phraseStructure |-> "question-answer", creativity |-> 8],
     Minimalist |->
        [density |-> 25, tensionCurve |-> "release", rhythmicStyle |-> "euclidean",
         phraseStructure |-> "ABAC", creativity |-> 3],
     EpicBuildup |->
        [density |-> 60, tensionCurve |-> "buildup", rhythmicStyle |-> "steady",
         phraseStructure |-> "through-composed", creativity |-> 3],
     CompletelyRandom |->
        [density |-> 50, tensionCurve |-> "random", rhythmicStyle |-> "random",
         phraseStructure |-> "through-composed", creativity |-> 10]]

\* The configs of the runs: the base config, a preset or the base config with
\* an unknown enum value, with the slot count
\* in 1..MaxSlots, the density kept or set to an end of its range, the
\* creativity kept or set to 0.
RhythmicStyles == {"steady", "syncopated", "euclidean", "sparse", "random"}

PhraseStructures == {"AABA", "ABAB", "ABAC", "question-answer", "through-composed"}

\* A string none of the switch statements has a case for: the type
\* GenerationConfig is erased at run time and the merged customConfig is
\* not validated.
UnknownEnum == "unknown"

UncheckedSettings ==
    {[baseConfig EXCEPT !.rhythmicStyle = UnknownEnum],
     [baseConfig EXCEPT !.phraseStructure = UnknownEnum]}

StyleSettings ==
    {baseConfig} \cup {GENERATIVE_PRESETS[p] : p \in DOMAIN GENERATIVE_PRESETS}
        \cup UncheckedSettings

EdgeDensities == {0, 100}

ConfigsOf(st) ==
    {[slots |-> n,
      density |-> d,
      tensionCurve |-> st.tensionCurve,
      rhythmicStyle |-> st.rhythmicStyle,
      phraseStructure |-> st.phraseStructure,
      creativity |-> c] :
        n \in 1..MaxSlots,
        d \in EdgeDensities \cup {st.density},
        c \in {0, st.creativity}}

Configs == UNION {ConfigsOf(st) : st \in StyleSettings}

Init ==
    /\ CallIdle
    /\ HostIdle
    /\ pc = "start"
    /\ config \in Configs
    /\ tensionValues = <<>>
    /\ densityMap = <<>>
    /\ phraseMap = <<>>
    /\ result = <<>>
    /\ previousChord = null
    /\ secondPreviousChord = null
    /\ i = 0

\* A run of the generator under replay (fn = "replay") takes its Math.random()
\* results from the script args.draws instead of drawing them; a run of its
\* own draws any element of S.  A script entry outside S (a draw the code
\* does not make) leaves S as it is.
Scripted(S, name) ==
    IF fn = "replay"
    THEN (IF args.draws[name] \in S THEN {args.draws[name]} ELSE S)
    ELSE S

\* The jitter draws of a replayed run: the script names the degree that gets
\* the largest draw.
ScriptedJitter(S, keys) ==
    IF fn = "replay"
    THEN LET jitter == [d \in keys |->
                          IF d = args.draws.boosted THEN MaxJitterDraw ELSE 0]
         IN  IF jitter \in S THEN {jitter} ELSE S
    ELSE S

\* The draws of generateDensityMap: one per slot where the code calls
\* Math.random(), none (a fixed filler) where it does not.
DensityDraws(rhythmicStyle, length) ==
    IF rhythmicStyle \in {"steady", "syncopated", "euclidean", "sparse"}
    THEN {[k \in 1..length |-> 0]}
    ELSE [1..length -> RandomDraws]

\* The draws of generateTensionCurve: the noise draws of one 'random' curve are
\* modelled by one common value.
TensionDraws(tensionCurve, length) ==
    IF tensionCurve = "random"
    THEN {[k \in 1..length |-> r] : r \in RandomDraws}
    ELSE {[k \in 1..length |-> 0]}

\* Steps 1 to 3 and the loop's initialisation.
Precompute ==
    /\ pc = "start"
    /\ \E tensionDraws \in Scripted(TensionDraws(config.tensionCurve, config.slots),
                                     "tension"),
          densityDraws \in Scripted(DensityDraws(config.rhythmicStyle, config.slots),
                                     "density") :
            /\ tensionValues' = generateTensionCurve(config.slots, config.tensionCurve,
                                                     tensionDraws)
            /\ densityMap' = generateDensityMap(config.slots, config.density,
                                                config.rhythmicStyle, densityDraws)
    /\ phraseMap' = generatePhraseStructure(config.phraseStructure, config.slots)
    /\ result' = <<>>
    /\ previousChord' = null
    /\ secondPreviousChord' = null
    /\ i' = 0
    /\ pc' = "loop"
    /\ UNCHANGED <<callVars, hostVars, config>>

\* densityMap[i] of the code (0-based index).
DensityAt(idx) == densityMap[idx + 1]

\* Mutant of RestSlot: a rest carries tension 0, not the curve's value.
RestSlot_FlatTension(idx) ==
    [position |-> idx,
     degree |-> null,
     velocity |-> 0,
     duration |-> 1,
     tension |-> 0,
     swing |-> 0,
     stagger |-> 0]

RestSlot(idx) ==
    [position |-> idx,
     degree |-> null,
     velocity |-> 0,
     duration |-> 1,
     tension |-> tensionValues[idx + 1],
     swing |-> 0,
     stagger |-> 0]

\* Mutant of EmitRest: a rest enters the chord context as a missing chord.
EmitRest_Advances ==
    /\ pc = "loop"
    /\ i < config.slots
    /\ ~DensityAt(i)
    /\ result' = Append(result, RestSlot(i))
    /\ secondPreviousChord' = previousChord
    /\ previousChord' = null
    /\ i' = i + 1
    /\ UNCHANGED <<callVars, hostVars, pc, config, tensionValues, densityMap, phraseMap>>

\* A loop iteration at a slot the density map leaves empty.
EmitRest ==
    /\ pc = "loop"
    /\ i < config.slots
    /\ ~DensityAt(i)
    /\ result' = Append(result, RestSlot(i))
    /\ i' = i + 1
    /\ UNCHANGED <<callVars, hostVars, pc, config, tensionValues, densityMap, phraseMap,
                   previousChord, secondPreviousChord>>

\* velocity, in ten-thousandths; r is the Math.random() result (thousandths).
Velocity(idx, targetTension, r) ==
    LET isDownbeat == idx % 4 = 0
        isOffbeat == idx % 2 = 1
        baseVelocity == IF isDownbeat THEN 8500 ELSE (IF isOffbeat THEN 7500 ELSE 7000)
        tensionBoost == targetTension * 15
        randomVariation == r - 500
    IN  IF targetTension = NaN THEN NaN
        ELSE Clamp(5000, 10000, baseVelocity + tensionBoost + randomVariation)

\* Mutant of MayExtend: the next slot is not looked at.
MayExtend_AnyNext(idx) == idx < config.slots - 1

\* The guard of the duration coin, up to the coin itself.
MayExtend(idx) == idx < config.slots - 1 /\ ~DensityAt(idx + 1)

\* duration; r is the Math.random() result of the coin.
Duration(idx, r) == IF MayExtend(idx) /\ r < 500 THEN 2 ELSE 1

\* swing, in thousandths.
Swing(idx, rhythmicStyle, r) ==
    IF rhythmicStyle = "syncopated" THEN (IF idx % 2 = 1 THEN 150 ELSE 0)
    ELSE IF rhythmicStyle = "random" THEN (r - 500) \div 5
    ELSE 0

\* stagger, in thousandths.
Stagger(rhythmicStyle, r) ==
    IF rhythmicStyle = "steady" THEN 300
    ELSE IF rhythmicStyle = "syncopated" \/ rhythmicStyle = "euclidean" THEN 600
    ELSE IF rhythmicStyle = "sparse" THEN 400
    ELSE IF rhythmicStyle = "random" THEN 200 + (r * 6) \div 10
    ELSE 500

\* Mutant of ChordSlot: a slot whose section id is not its own index repeats
\* the tonic.
ChordSlot_PhraseRepeat(idx, degree, rv, rd, rs, rg) ==
    [position |-> idx,
     degree |-> IF idx + 1 \in DOMAIN phraseMap /\ phraseMap[idx + 1] # idx
                THEN 1
                ELSE degree,
     velocity |-> Velocity(idx, tensionValues[idx + 1], rv),
     duration |-> Duration(idx, rd),
     tension |-> CHORD_TENSION_MAP[degree],
     swing |-> Swing(idx, config.rhythmicStyle, rs),
     stagger |-> Stagger(config.rhythmicStyle, rg)]

\* The slot pushed for a chord; rv, rd, rs, rg are the Math.random() results
\* of the velocity, the duration coin, the swing and the stagger.
ChordSlot(idx, degree, rv, rd, rs, rg) ==
    [position |-> idx,
     degree |-> degree,
     velocity |-> Velocity(idx, tensionValues[idx + 1], rv),
     duration |-> Duration(idx, rd),
     tension |-> CHORD_TENSION_MAP[degree],
     swing |-> Swing(idx, config.rhythmicStyle, rs),
     stagger |-> Stagger(config.rhythmicStyle, rg)]

\* The duration coin is drawn only when the first two operands of its && hold.
CoinDraws(idx) == IF MayExtend(idx) THEN RandomDraws ELSE {0}

\* A loop iteration at a slot the density map fills.
EmitChord ==
    /\ pc = "loop"
    /\ i < config.slots
    /\ DensityAt(i)
    /\ \E jitter \in ScriptedJitter(
                        JitterChoices(config.creativity,
                            DOMAIN Transitions(previousChord, secondPreviousChord)),
                        DOMAIN Transitions(previousChord, secondPreviousChord)),
          u \in Scripted(SelectDraws(config.creativity), "u"),
          rv \in NoiseDraws, rd \in Scripted(CoinDraws(i), "coin"),
          rs \in NoiseDraws, rg \in NoiseDraws :
            LET degree == selectChordForTension(tensionValues[i + 1], previousChord,
                              secondPreviousChord, config.creativity, jitter, u)
            IN  /\ result' = Append(result, ChordSlot(i, degree, rv, rd, rs, rg))
                /\ secondPreviousChord' = previousChord
                /\ previousChord' = degree
    /\ i' = i + 1
    /\ UNCHANGED <<callVars, hostVars, pc, config, tensionValues, densityMap, phraseMap>>

\* result.reverse().find(s => s.degree !== null), as an index into result
\* (0 when there is none).
LastFilledIndex(slots) ==
    IF \E k \in 1..Len(slots) : slots[k].degree # null
    THEN CHOOSE k \in 1..Len(slots) :
            /\ slots[k].degree # null
            /\ \A j \in (k + 1)..Len(slots) : slots[j].degree = null
    ELSE 0

\* Mutant of NeedsResolution: the dominant is not exempt.
NeedsResolution_TonicOnly(slot) == slot.degree # 1

\* The guard of the cadence block.
NeedsResolution(slot) == slot.degree # 1 /\ slot.degree # 5

\* Step 5: the progression after the cadence block; r is the Math.random()
\* result of its coin.
Resolve(slots, r) ==
    LET last == LastFilledIndex(slots)
    IN  IF last # 0 /\ NeedsResolution(slots[last]) /\ r < 600
        THEN [slots EXCEPT ![last].degree = 1]
        ELSE slots

\* The loop has ended: step 5 and the return.
Cadence ==
    /\ pc = "loop"
    /\ i >= config.slots
    /\ \E r \in Scripted(RandomDraws, "cadence") : result' = Resolve(result, r)
    /\ pc' = "done"
    /\ UNCHANGED <<callVars, hostVars, config, tensionValues, densityMap, phraseMap,
                   previousChord, secondPreviousChord, i>>

Next == Precompute \/ EmitRest \/ EmitChord \/ Cadence

Spec == Init /\ [][Next]_vars

(***************************************************************************)
(* Two runs of generateProceduralProgression on the same random draws: the *)
(* first with the config's phrase structure, the second, once the first    *)
(* has returned, with another one.  The script fixes the draws of both: one *)
(* tension and one density draw sequence, and for all slots one selection  *)
(* draw, one boosted degree and one duration coin, and the cadence coin.   *)
(***************************************************************************)
ValidSettings == StyleSettings \ UncheckedSettings

\* The selection draws scripted: every fifth point of the grid and the draw
\* that leaves a rounding remainder.
ReplayDraws(creativity) ==
    {u \in SelectDraws(creativity) : u % 5 = 0 \/ u > SelectGrid}

ReplayBoosted == {0, 3, 5}

InitReplay ==
    /\ fn = "replay"
    /\ \E st \in ValidSettings, n \in 1..MaxSlots, other \in PhraseStructures :
          /\ other # st.phraseStructure
          /\ config = [slots |-> n,
                       density |-> st.density,
                       tensionCurve |-> st.tensionCurve,
                       rhythmicStyle |-> st.rhythmicStyle,
                       phraseStructure |-> st.phraseStructure,
                       creativity |-> st.creativity]
          /\ \E tension \in TensionDraws(st.tensionCurve, n),
                density \in DensityDraws(st.rhythmicStyle, n),
                u \in ReplayDraws(st.creativity),
                boosted \in ReplayBoosted,
                coin \in RandomDraws, cadence \in RandomDraws :
                args = [first |-> st.phraseStructure,
                        other |-> other,
                        draws |-> [tension |-> tension, density |-> density,
                                   u |-> u, boosted |-> boosted,
                                   coin |-> coin, cadence |-> cadence]]
    /\ ret = Pending
    /\ HostIdle
    /\ pc = "start"
    /\ tensionValues = <<>>
    /\ densityMap = <<>>
    /\ phraseMap = <<>>
    /\ result = <<>>
    /\ previousChord = null
    /\ secondPreviousChord = null
    /\ i = 0

\* The first run has returned: its progression is kept and the second run is
\* entered with the other phrase structure.
SecondRun ==
    /\ fn = "replay"
    /\ pc = "done"
    /\ ret.status = "pending"
    /\ ret' = Returned(result)
    /\ config' = [config EXCEPT !.phraseStructure = args.other]
    /\ pc' = "start"
    /\ UNCHANGED <<fn, args, hostVars, tensionValues, densityMap, phraseMap, result,
                   previousChord, secondPreviousChord, i>>

NextReplay == Precompute \/ EmitRest \/ EmitChord \/ Cadence \/ SecondRun

SpecReplay == InitReplay /\ [][NextReplay]_vars

(***************************************************************************)
(* Claims about the chord model, checked under SpecChords.                 *)
(***************************************************************************)
ChordCallDone == fn = "generateChord" /\ ret.status # "pending"

\* The chord of the call's arguments in root position.
RootPosition ==
    ChordNotes(args.key, args.scaleDegree, args.chordType, 0, args.octave)

\* How many notes of a chord have pitch class c.
PitchClassCount(notes, c) ==
    Cardinality({k \in 1..Len(notes) : notes[k] % 12 = c})

\* C2: generateChord throws, returning no pitches, for every scale degree
\* below 1 or above 7 whatever the other arguments are, and returns a chord
\* for every degree in 1..7.
C2_DegreeOutsideRangeThrows ==
    ChordCallDone =>
        /\ (args.scaleDegree < 1 \/ args.scaleDegree > 7) <=> ret.status = "throw"
        /\ args.scaleDegree \in 1..7 <=> ret.status = "ok"
        /\ ret.status = "throw" => ret.val = <<>>
        /\ ret.status = "ok" => Len(ret.val) > 0

C2_Witness ==
    /\ ChordCallDone
    /\ args.scaleDegree = 8
    /\ ret.status = "throw"

\* The quality the claim gives each degree when none is passed.
C3_DefaultQuality(degree) ==
    IF degree \in {1, 4, 5} THEN "major"
    ELSE IF degree \in {2, 3, 6} THEN "minor" ELSE "dim"

C3_MajorOffset == <<0, 2, 4, 5, 7, 9, 11>>

\* C3: with inversion 0 generateChord returns one pitch per interval of the
\* quality (the degree's default quality when none is given), each equal to
\* (octave+1)*12 + ((keyIndex + majorOffset[degree-1]) mod 12) + interval;
\* generateChord('C', 1, 'major', 0, 4) = [60, 64, 67].
C3_RootPositionPitches ==
    (ChordCallDone /\ args.inversion = 0 /\ args.scaleDegree \in 1..7) =>
        LET quality == IF args.chordType = undefined
                       THEN C3_DefaultQuality(args.scaleDegree)
                       ELSE args.chordType
            intervals == CHORD_INTERVALS[quality]
            root == (getNoteIndex(args.key) + C3_MajorOffset[args.scaleDegree]) % 12
        IN  /\ ret.status = "ok"
            /\ Len(ret.val) = Len(intervals)
            /\ \A k \in 1..Len(intervals) :
                   ret.val[k] = (args.octave + 1) * 12 + root + intervals[k]
            /\ (args.key = "C" /\ args.scaleDegree = 1 /\ args.chordType = "major"
                /\ args.octave = 4) => ret.val = <<60, 64, 67>>

C3_Witness ==
    /\ ChordCallDone
    /\ args = [key |-> "A", scaleDegree |-> 7, chordType |-> undefined,
               inversion |-> 0, octave |-> 4]
    /\ ret.val = <<68, 71, 74>>

\* C4: for every inversion value (0, negative, at least the chord size, or in
\* between) the returned chord has as many notes as the inversion-0 chord of
\* the same arguments and the same multiset of pitch classes.
C4_InversionKeepsPitchClasses ==
    (ChordCallDone /\ ret.status = "ok") =>
        /\ Len(ret.val) = Len(RootPosition)
        /\ \A c \in 0..11 :
               PitchClassCount(ret.val, c) = PitchClassCount(RootPosition, c)

C4_Witness ==
    /\ ChordCallDone
    /\ ret.status = "ok"
    /\ args.inversion = 2
    /\ Len(ret.val) = 5
    /\ ret.val # RootPosition

\* C5: an inversion greater than or equal to the number of notes of the chord
\* is a no-op: the root-position pitches are returned unchanged, without error.
C5_InversionAtLeastSizeIsNoOp ==
    (ChordCallDone /\ args.scaleDegree \in 1..7
     /\ args.inversion >= Len(RootPosition)) =>
        /\ ret.status = "ok"
        /\ ret.val = RootPosition

C5_Witness ==
    /\ ChordCallDone
    /\ ret.status = "ok"
    /\ args.inversion = Len(ret.val)
    /\ ret.val = RootPosition

ModCallDone == fn = "applyChordModification" /\ ret.status # "pending"

\* C6: applyChordModification returns the table entry of (modification, base)
\* when the table has one and the base quality unchanged when it has none,
\* never failing; ('major','maj/min') gives 'minor', ('dim','sus4') gives 'dim'.
C6_ModificationLookupOrBase ==
    ModCallDone =>
        LET hasEntry == /\ args.modification \in DOMAIN modMap
                        /\ args.baseType \in DOMAIN modMap[args.modification]
        IN  /\ ret.status = "ok"
            /\ hasEntry => ret.val = modMap[args.modification][args.baseType]
            /\ ~hasEntry => ret.val = args.baseType
            /\ (args.baseType = "major" /\ args.modification = "maj/min")
                   => ret.val = "minor"
            /\ (args.baseType = "dim" /\ args.modification = "sus4")
                   => ret.val = "dim"

C6_Witness ==
    /\ ModCallDone
    /\ args.baseType = "dim"
    /\ args.modification = "sus4"
    /\ ret.val = "dim"

(***************************************************************************)
(* Claims about the rhythm functions, checked under SpecRhythm.            *)
(***************************************************************************)
EuclidCallDone == fn = "euclideanRhythm" /\ ret.status = "ok"

\* C1: for steps >= 1 and 0 <= pulses <= steps, euclideanRhythm(steps, pulses)
\* returns exactly `steps` booleans of which exactly `pulses` are true;
\* pulses = 0 gives all false and pulses >= steps gives all true.
C1_EuclidPulseCount ==
    EuclidCallDone =>
        /\ Len(ret.val) = args.steps
        /\ \A k \in 1..Len(ret.val) : ret.val[k] \in BOOLEAN
        /\ args.pulses <= args.steps => CountTrue(ret.val) = args.pulses
        /\ args.pulses = 0 => \A k \in 1..Len(ret.val) : ret.val[k] = FALSE
        /\ args.pulses >= args.steps => \A k \in 1..Len(ret.val) : ret.val[k] = TRUE

C1_Witness ==
    /\ EuclidCallDone
    /\ args.steps = 16
    /\ args.pulses = 4
    /\ \A k \in 1..16 : ret.val[k] = (k \in {1, 5, 9, 13})

(***************************************************************************)
(* Claims about selectChordForTension, checked under SpecSelect.           *)
(***************************************************************************)
SelectCallDone == fn = "selectChordForTension" /\ ret.status # "pending"

\* The weights the finished call drew from.
CallWeights ==
    Reweighted(args.targetTension, args.previousChord, args.secondPreviousChord,
               args.creativity, JitterOf(args))

\* C7: whenever the candidate weights of the weighted selection sum to zero
\* (no candidate, or only zero-weight candidates) the returned degree is the
\* tonic, degree 1, and nothing is thrown.
C7_ZeroSumReturnsTonic ==
    (SelectCallDone /\ args.targetTension # NaN /\ TotalWeight(CallWeights) = 0) =>
        /\ ret.status = "ok"
        /\ ret.val = 1

C7_Witness ==
    /\ SelectCallDone
    /\ args.targetTension = 50
    /\ args.previousChord = 8
    /\ DOMAIN CallWeights = {}
    /\ TotalWeight(CallWeights) = 0
    /\ ret.val = 1

(***************************************************************************)
(* Claims about generateProceduralProgression, checked under Spec.         *)
(***************************************************************************)
\* The indices of the non-rest slots of `slots` before index k, ascending.
ChordsBefore(slots, k) == {j \in 1..(k - 1) : slots[j].degree # null}

\* The greatest element of a non-empty set of integers.
Greatest(S) == CHOOSE x \in S : \A y \in S : y <= x

\* The degrees the claim allows at index k of `slots`, given the chords chosen
\* before it.
C8_Allowed(slots, k) ==
    LET before == ChordsBefore(slots, k)
    IN  IF before = {} THEN Degrees
        ELSE LET p1 == Greatest(before)
                 earlier == before \ {p1}
                 prev == slots[p1].degree
             IN  IF earlier # {}
                    /\ <<slots[Greatest(earlier)].degree, prev>> \in DOMAIN MARKOV_2ND_ORDER
                 THEN DOMAIN MARKOV_2ND_ORDER[<<slots[Greatest(earlier)].degree, prev>>]
                 ELSE {d \in Degrees : d \in DOMAIN MARKOV_1ST_ORDER[prev]}

\* C8: before the cadence post-pass, every chosen degree that follows a pair
\* (prevPrev, prev) of chosen chords with a 2nd-order entry is listed in that
\* entry; with no entry for the pair, or a single chord chosen so far, it is
\* listed in the 1st-order row of prev.
C8_SecondOrderOverridesFirst ==
    pc = "loop" =>
        \A k \in 1..Len(result) :
            result[k].degree # null => result[k].degree \in C8_Allowed(result, k)

C8_Witness ==
    /\ pc = "loop"
    /\ Len(result) = 3
    /\ result[1].degree = 4
    /\ result[2].degree = 1
    /\ result[3].degree = 5
    /\ <<4, 1>> \in DOMAIN MARKOV_2ND_ORDER

\* C9: the returned progression has exactly `slots` slots, slot i at index i
\* with position i; slot i is a rest exactly when densityMap[i] is false; a
\* rest has degree null, velocity 0, duration 1, swing 0, stagger 0 and the
\* tension tensionCurve[i]; a non-rest slot has a degree in 1..7.
C9_SlotsFollowDensityMap ==
    pc = "done" =>
        /\ Len(result) = config.slots
        /\ \A k \in 1..Len(result) :
            /\ result[k].position = k - 1
            /\ (result[k].degree = null) <=> (densityMap[k] = FALSE)
            /\ result[k].degree = null =>
                /\ result[k].velocity = 0
                /\ result[k].duration = 1
                /\ result[k].swing = 0
                /\ result[k].stagger = 0
                /\ result[k].tension = tensionValues[k]
            /\ result[k].degree # null => result[k].degree \in 1..7

C9_Witness ==
    /\ pc = "done"
    /\ Len(result) = 3
    /\ result[1].degree = null
    /\ result[1].tension = 0
    /\ result[2].degree = 4
    /\ result[3].degree = null
    /\ result[3].tension = 100

\* C10: the cadence post-pass changes at most one slot, the last non-rest
\* slot, only when its degree is neither I nor V, and then only by setting its
\* degree to I; every other slot is left as it was.
C10_CadenceTouchesOnlyLastChord ==
    [][(pc = "loop" /\ pc' = "done") =>
        /\ Len(result') = Len(result)
        /\ \A k \in 1..Len(result) :
            result'[k] # result[k] =>
                /\ result[k].degree \notin {null, 1, 5}
                /\ \A j \in (k + 1)..Len(result) : result[j].degree = null
                /\ result'[k] = [result[k] EXCEPT !.degree = 1]]_vars

\* A returned progression whose last chord, followed by a rest, was replaced
\* by the tonic: it still carries the tension of the degree it was chosen as.
C10_Witness ==
    /\ pc = "done"
    /\ Len(result) = 3
    /\ result[1].degree = 1
    /\ result[2].degree = 1
    /\ result[2].tension = 40
    /\ result[3].degree = null

(***************************************************************************)
(* chordSuggestion: the live suggestion engine.  Degrees are 0..6 here (I  *)
(* is 0).  Table probabilities are in hundredths; a score is in            *)
(* hundred-thousandths (0.40 x a hundredth is 400); a probability is the   *)
(* exact fraction [num, den] of data.score / totalScore, or of a literal   *)
(* (0.35 is 35 / 100).                                                     *)
(***************************************************************************)
SuggestDegrees == 0..6

\* Row `from`, entry `to + 1`.
COMMON_PROGRESSIONS ==
    (0 :> <<5, 10, 3, 35, 25, 20, 2>>) @@
    (1 :> <<25, 5, 3, 15, 40, 10, 2>>) @@
    (2 :> <<20, 5, 3, 25, 10, 35, 2>>) @@
    (3 :> <<30, 20, 3, 5, 25, 15, 2>>) @@
    (4 :> <<50, 8, 2, 15, 4, 20, 1>>) @@
    (5 :> <<15, 25, 3, 30, 20, 5, 2>>) @@
    (6 :> <<60, 1, 10, 5, 3, 20, 1>>)

SECOND_ORDER_PATTERNS ==
    (<<0, 4>> :> <<15, 5, 1, 25, 3, 50, 1>>) @@
    (<<4, 5>> :> <<20, 5, 1, 55, 15, 3, 1>>) @@
    (<<5, 3>> :> <<40, 10, 2, 4, 35, 8, 1>>) @@
    (<<3, 0>> :> <<5, 10, 3, 20, 45, 15, 2>>) @@
    (<<0, 3>> :> <<25, 15, 3, 5, 40, 10, 2>>) @@
    (<<3, 4>> :> <<60, 5, 1, 10, 3, 20, 1>>) @@
    (<<1, 4>> :> <<55, 6, 2, 12, 4, 20, 1>>) @@
    (<<5, 1>> :> <<12, 3, 1, 25, 50, 8, 1>>) @@
    (<<2, 5>> :> <<8, 40, 1, 35, 12, 3, 1>>) @@
    (<<0, 5>> :> <<8, 25, 2, 45, 15, 4, 1>>)

\* table[key]?.[degree] || fallback: a missing row or a missing entry of the
\* row is undefined, and a zero entry is falsy too.
LookupOr(table, key, degree, fallback) ==
    IF /\ key \in DOMAIN table
       /\ degree + 1 \in DOMAIN table[key]
       /\ table[key][degree + 1] # 0
    THEN table[key][degree + 1]
    ELSE fallback

\* getCircleOfFifthsBonus, in hundred-thousandths: the first test that holds returns.
getCircleOfFifthsBonus(from, to) ==
    IF (to - from + 7) % 7 = 4 THEN 15000
    ELSE IF (to - from + 7) % 7 = 3 THEN 12000
    ELSE IF Abs(to - from) = 1 THEN 8000
    ELSE IF to = 0 THEN 10000
    ELSE 0

HARMONIC_FUNCTION ==
    [tonic |-> {0, 2, 5}, subdominant |-> {1, 3}, dominant |-> {4, 6}]

\* getFunctionalHarmonyBonus, in hundredths.
getFunctionalHarmonyBonus(from, to) ==
    IF from \in HARMONIC_FUNCTION.dominant /\ to \in HARMONIC_FUNCTION.tonic THEN 20
    ELSE IF from \in HARMONIC_FUNCTION.subdominant /\ to \in HARMONIC_FUNCTION.dominant
         THEN 15
    ELSE IF from \in HARMONIC_FUNCTION.tonic /\ to \in HARMONIC_FUNCTION.subdominant
         THEN 12
    ELSE 0

\* markovProb of the 1st-order term.
MarkovProb(lastChord, degree) ==
    LookupOr(COMMON_PROGRESSIONS, lastChord.degree, degree, 1)

\* secondOrderProb of the 2nd-order term.
SecondOrderProb(secondLastChord, lastChord, degree) ==
    LookupOr(SECOND_ORDER_PATTERNS, <<secondLastChord.degree, lastChord.degree>>,
             degree, 1)

\* Mutant of SecondLast: the first entry of the history, not the one before
\* the last.
SecondLast_First(history) == IF Len(history) > 1 THEN <<history[1]>> ELSE <<>>

\* secondLastChord: the entry before the last as a one-element sequence, the
\* empty sequence for the code's null.
SecondLast(history) ==
    IF Len(history) > 1 THEN <<history[Len(history) - 1]>> ELSE <<>>

\* scores[degree] after the loop over the degrees (steps 1 to 4).
BaseScore(history, degree) ==
    LET lastChord == history[Len(history)]
        secondLastChord == SecondLast(history)
        markovProb == MarkovProb(lastChord, degree)
        secondOrderProb ==
            IF secondLastChord # <<>>
            THEN SecondOrderProb(secondLastChord[1], lastChord, degree)
            ELSE 0
        fifthsBonus == getCircleOfFifthsBonus(lastChord.degree, degree)
        functionBonus == getFunctionalHarmonyBonus(lastChord.degree, degree)
    IN  [score |-> markovProb * 400 + secondOrderProb * 300 + fifthsBonus
                       + functionBonus * 700,
         reasons |->
            (IF markovProb > 20 THEN <<"Common progression">> ELSE <<>>)
            \o (IF secondOrderProb > 30 THEN <<"Popular pattern">> ELSE <<>>)
            \o (IF fifthsBonus > 10000 THEN <<"Strong voice leading">> ELSE <<>>)
            \o (IF functionBonus > 10 THEN <<"Natural resolution">> ELSE <<>>)]

\* randomBoost = Math.random() * 0.15 + 0.05, r in thousandths.
RandomBoost(r) == r * 15 + 5000

\* addCreativityBonus for one degree; r is its Math.random() result.
WithCreativityBonus(entry, degree, r) ==
    [score |-> entry.score + RandomBoost(r)
                   + (IF degree \in {2, 6} THEN 10000 ELSE 0),
     reasons |-> entry.reasons
                   \o (IF degree \in {2, 6} THEN <<"Creative choice">> ELSE <<>>)]

\* scores after addCreativityBonus; boosts[d] is the draw of degree d.
Scores(history, boosts) ==
    [d \in SuggestDegrees |-> WithCreativityBonus(BaseScore(history, d), d, boosts[d])]

RECURSIVE ScoreSumFrom(_, _)
ScoreSumFrom(scores, d) ==
    IF d > 6 THEN 0 ELSE scores[d].score + ScoreSumFrom(scores, d + 1)

\* Mutant of TotalScore: the score of vii is left out of the sum.
TotalScore_SkipLast(scores) == ScoreSumFrom(scores, 0) - scores[6].score

\* Object.values(scores).reduce((sum, s) => sum + s.score, 0)
TotalScore(scores) == ScoreSumFrom(scores, 0)

\* a.probability > b.probability for two fractions (the fractions of one
\* list share their denominator).
ProbGreater(a, b) ==
    IF a.den = b.den THEN a.num > b.num ELSE a.num * b.den > b.num * a.den

\* prob > bound / 100
ProbAbove(prob, bound) == prob.num * 100 > bound * prob.den

\* prob > 0.3 ? 'strong' : prob > 0.15 ? 'moderate' : 'adventurous'
Category(prob) ==
    IF ProbAbove(prob, 30) THEN "strong"
    ELSE IF ProbAbove(prob, 15) THEN "moderate"
    ELSE "adventurous"

\* The sequence s without its element k.
Without(s, k) == SubSeq(s, 1, k - 1) \o SubSeq(s, k + 1, Len(s))

\* Mutant of SortDescending: among equal probabilities the later element
\* comes first.
RECURSIVE SortDescending_Unstable(_)
SortDescending_Unstable(s) ==
    IF s = <<>> THEN <<>>
    ELSE LET k == CHOOSE j \in 1..Len(s) :
                    /\ \A m \in 1..Len(s) : ~ProbGreater(s[m].probability, s[j].probability)
                    /\ \A m \in (j + 1)..Len(s) :
                          ProbGreater(s[j].probability, s[m].probability)
         IN  <<s[k]>> \o SortDescending_Unstable(Without(s, k))

\* .sort((a, b) => b.probability - a.probability): descending, and stable, so
\* equal probabilities keep their order.
RECURSIVE SortDescending(_)
SortDescending(s) ==
    IF s = <<>> THEN <<>>
    ELSE LET k == CHOOSE j \in 1..Len(s) :
                    /\ \A m \in 1..Len(s) : ~ProbGreater(s[m].probability, s[j].probability)
                    /\ \A m \in 1..(j - 1) :
                          ProbGreater(s[j].probability, s[m].probability)
         IN  <<s[k]>> \o SortDescending(Without(s, k))

\* startOptions
startOptions ==
    <<[degree |-> 0, probability |-> [num |-> 35, den |-> 100],
       reason |-> <<"Tonic (I) - Classic start">>, category |-> "strong"],
      [degree |-> 4, probability |-> [num |-> 25, den |-> 100],
       reason |-> <<"Dominant (V) - Bold start">>, category |-> "strong"],
      [degree |-> 3, probability |-> [num |-> 20, den |-> 100],
       reason |-> <<"Subdominant (IV) - Warm start">>, category |-> "moderate"],
      [degree |-> 5, probability |-> [num |-> 12, den |-> 100],
       reason |-> <<"vi - Melancholic start">>, category |-> "moderate"],
      [degree |-> 1, probability |-> [num |-> 8, den |-> 100],
       reason |-> <<"ii - Jazz influence">>, category |-> "adventurous"]>>

\* The orders .sort(() => Math.random() - 0.5) can leave the five options in:
\* the comparator is random, every order is possible.
Shuffles ==
    {q \in [1..5 -> 1..5] : \A a, b \in 1..5 : a # b => q[a] # q[b]}

\* Mutant of Top: one element too many.
Top_OneMore(s, n) == SubSeq(s, 1, Min(n + 1, Len(s)))

\* .slice(0, n)
Top(s, n) == SubSeq(s, 1, Min(n, Len(s)))

\* The suggestions of all seven degrees, before the sort.
Normalized(scores) ==
    LET totalScore == TotalScore(scores)
    IN  [k \in 1..7 |->
            LET degree == k - 1
                prob == [num |-> scores[degree].score, den |-> totalScore]
            IN  [degree |-> degree,
                 probability |-> prob,
                 reason |-> IF scores[degree].reasons # <<>>
                            THEN scores[degree].reasons
                            ELSE <<"Possible choice">>,
                 category |-> Category(prob)]]

\* suggestNextChords(history, _bpm, _currentTime); shuffle is the order the
\* random sort leaves the start options in, boosts the draws of
\* addCreativityBonus.
suggestNextChords(history, bpm, currentTime, shuffle, boosts) ==
    IF Len(history) = 0
    THEN SortDescending(Top([k \in 1..5 |-> startOptions[shuffle[k]]], 3))
    ELSE Top(SortDescending(Normalized(Scores(history, boosts))), 4)

\* The greatest r with r * r <= v, for 0 <= v < 1000000.
ISqrt(v) == CHOOSE r \in 0..999 : r * r <= v /\ v < (r + 1) * (r + 1)

Fraction(n, d) == [num |-> n, den |-> d]

\* analyzePlayingPattern(history).  averageTiming and predictability are exact
\* fractions; consistency is in thousandths, rounded down, or NaN when the
\* average interval is 0 (stdDev / averageTiming is then 0 / 0).  With n
\* intervals of sum S, (stdDev / averageTiming)^2 is sum (n x - S)^2 / (n S^2).
analyzePlayingPattern(history) ==
    IF Len(history) < 3
    THEN [averageTiming |-> Fraction(0, 1), consistency |-> 0,
          predictability |-> Fraction(0, 1)]
    ELSE LET n == Len(history) - 1
             intervals == [k \in 1..n |->
                              history[k + 1].timestamp - history[k].timestamp]
             S == SumSeq(intervals)
             A == SumSeq([k \in 1..n |-> (n * intervals[k] - S) * (n * intervals[k] - S)])
             matches == Cardinality({k \in 1..n :
                            LookupOr(COMMON_PROGRESSIONS, history[k].degree,
                                     history[k + 1].degree, 0) > 15})
         IN  [averageTiming |-> Fraction(S, n),
              consistency |->
                 IF S = 0 THEN NaN
                 ELSE IF A >= n * S * S THEN 0
                 ELSE 1000 - ISqrt((1000000 * A) \div (n * S * S)),
              predictability |-> Fraction(matches, n)]

(***************************************************************************)
(* Calls of the suggestion engine's functions with arguments and draws     *)
(* from bounded sets.  A history is caller-owned: its degrees are whatever  *)
(* the caller logged, 0..6 in the engine's numbering, 1..7 in the pads'.   *)
(***************************************************************************)
MaxSuggestHistory == 3

MaxPatternHistory == 4

HistoryDegrees == 0..7

\* I and V in both numberings, and a degree with no row.
PatternDegrees == {0, 1, 4, 5, 7}

\* Milliseconds between two logged chords.
Deltas == {0, 1, 2}

MakeHistory(degrees, deltas) ==
    [k \in 1..Len(degrees) |->
        [degree |-> degrees[k], timestamp |-> SumSeq(SubSeq(deltas, 1, k - 1))]]

\* The draws of addCreativityBonus (thousandths): all lowest, all highest, or
\* one degree highest.
BoostChoices ==
    {[d \in SuggestDegrees |-> IF d = b \/ b = 7 THEN 999 ELSE 0] : b \in (0 - 1)..7}

\* The start-option orders used when the history is not empty (none is drawn).
NoShuffle == [k \in 1..5 |-> k]

\* The arguments of a suggestNextChords call: a history of n chords logged a
\* millisecond apart; with no history the shuffle is drawn, else the boosts.
SuggestCall(n, degrees, bpm, currentTime, shuffle, boosts) ==
    [history |-> MakeHistory(degrees, [k \in 1..(n - 1) |-> 1]),
     bpm |-> bpm, currentTime |-> currentTime,
     shuffle |-> shuffle, boosts |-> boosts]

InitSuggest ==
    /\ \/ /\ fn = "suggestNextChords"
          /\ \E bpm \in {60, 120}, currentTime \in {0, 1} :
                \/ \E shuffle \in Shuffles :
                      args = SuggestCall(0, <<>>, bpm, currentTime, shuffle,
                                         [d \in SuggestDegrees |-> 0])
                \/ \E n \in 1..MaxSuggestHistory :
                      \E degrees \in [1..n -> HistoryDegrees], boosts \in BoostChoices :
                         args = SuggestCall(n, degrees, bpm, currentTime,
                                            NoShuffle, boosts)
       \/ /\ fn = "analyzePlayingPattern"
          /\ \E n \in 0..MaxPatternHistory :
                \E degrees \in [1..n -> PatternDegrees],
                   deltas \in [1..(n - 1) -> Deltas] :
                      args = [history |-> MakeHistory(degrees, deltas)]
       \/ /\ fn = "getCircleOfFifthsBonus"
          /\ args \in [from : HistoryDegrees, to : SuggestDegrees]
    /\ ret = Pending
    /\ BatchIdle
    /\ HostIdle

CallSuggestNextChords ==
    /\ fn = "suggestNextChords"
    /\ ret.status = "pending"
    /\ ret' = Returned(suggestNextChords(args.history, args.bpm, args.currentTime,
                                         args.shuffle, args.boosts))
    /\ UNCHANGED <<fn, args, batchVars, hostVars>>

CallAnalyzePlayingPattern ==
    /\ fn = "analyzePlayingPattern"
    /\ ret.status = "pending"
    /\ ret' = Returned(analyzePlayingPattern(args.history))
    /\ UNCHANGED <<fn, args, batchVars, hostVars>>

CallGetCircleOfFifthsBonus ==
    /\ fn = "getCircleOfFifthsBonus"
    /\ ret.status = "pending"
    /\ ret' = Returned(getCircleOfFifthsBonus(args.from, args.to))
    /\ UNCHANGED <<fn, args, batchVars, hostVars>>

\* The caller asks again for the same history, at another tempo and time
\* (the component's effect runs again when bpm changes).
SuggestAgain ==
    /\ fn = "suggestNextChords"
    /\ ret.status = "ok"
    /\ \E bpm \in {60, 120}, currentTime \in {0, 1} :
          /\ bpm # args.bpm
          /\ currentTime # args.currentTime
          /\ \/ /\ Len(args.history) = 0
                /\ \E shuffle \in Shuffles :
                      args' = [args EXCEPT !.bpm = bpm, !.currentTime = currentTime,
                                           !.shuffle = shuffle]
             \/ /\ Len(args.history) # 0
                /\ \E boosts \in BoostChoices :
                      args' = [args EXCEPT !.bpm = bpm, !.currentTime = currentTime,
                                           !.boosts = boosts]
    /\ ret' = Pending
    /\ UNCHANGED <<fn, batchVars, hostVars>>

NextSuggest ==
    \/ CallSuggestNextChords
    \/ CallAnalyzePlayingPattern
    \/ CallGetCircleOfFifthsBonus
    \/ SuggestAgain

SpecSuggest == InitSuggest /\ [][NextSuggest]_vars

(***************************************************************************)
(* The ChordSuggestion component: the listener for chordPlayed events, the *)
(* effect that asks the engine for suggestions, the clear button and the   *)
(* timer that hides the feedback.  An event carries the pad's degree and   *)
(* its press time.                                                         *)
(***************************************************************************)
\* if (newHistory.length > 20)
HistoryLimit == 20

MaxEvents == 22

\* The pad whose events are followed: V on the pads, vi in the engine's
\* numbering.
PadDegrees == {5}

\* The degrees of keyMappings: the seven pads, Q W E A S D F.
keyMappings == 1..7

MaxPadEvents == 2

\* The component is followed through long sessions on the one pad ("host")
\* and through short sessions on all seven ("pads").
Mounted == fn \in {"host", "pads"}

SessionPads == IF fn = "pads" THEN keyMappings ELSE PadDegrees

SessionEvents == IF fn = "pads" THEN MaxPadEvents ELSE MaxEvents

\* state.audio.bpm as the effect may find it.
HostBpms == {60, 120}

\* The orders the random sort of the start options is followed through, and
\* the draws of addCreativityBonus: all lowest or all highest.
HostShuffles == {<<1, 2, 3, 4, 5>>, <<5, 4, 3, 2, 1>>, <<2, 4, 1, 5, 3>>}

HostBoosts == {[d \in SuggestDegrees |-> 0], [d \in SuggestDegrees |-> 999]}

\* checkSuggestionMatch: the match as a one-element sequence, null as <<>>.
checkSuggestionMatch(playedDegree, suggested) ==
    LET found == {k \in 1..Len(suggested) : suggested[k].degree = playedDegree}
    IN  IF found # {}
        THEN LET matchIndex == CHOOSE k \in found : \A j \in found : k <= j
             IN  <<[matched |-> TRUE, rank |-> matchIndex,
                    probability |-> suggested[matchIndex].probability]>>
        ELSE <<>>

\* Math.round(probability * 100)
Percent(prob) == (200 * prob.num + prob.den) \div (2 * prob.den)

\* The three messages of a match: the first shows the rank and the percentage,
\* the other two only whether the rank is 1 (rank 2 stands for any other).
FeedbackMessages(match) ==
    <<[template |-> 1, rank |-> match.rank, percent |-> Percent(match.probability)],
      [template |-> 2, rank |-> Min(match.rank, 2), percent |-> 0],
      [template |-> 3, rank |-> Min(match.rank, 2), percent |-> 0]>>

\* Mutant of KeepLast: the newest entry is dropped instead of the oldest.
KeepLast_DropNewest(newHistory) ==
    IF Len(newHistory) > HistoryLimit
    THEN SubSeq(newHistory, 1, Len(newHistory) - 1)
    ELSE newHistory

\* if (newHistory.length > 20) newHistory.shift()
KeepLast(newHistory) ==
    IF Len(newHistory) > HistoryLimit THEN Tail(newHistory) ELSE newHistory

InitHost ==
    /\ fn = "host"
    /\ args = <<>>
    /\ ret = Pending
    /\ BatchIdle
    /\ HostState
    /\ effectDue = TRUE

\* handleChordPlayed with the updater it hands to setChordHistory.
ChordPlayed ==
    /\ Mounted
    /\ clock < SessionEvents
    /\ \E degree \in SessionPads :
          LET entry == [degree |-> degree, timestamp |-> clock]
              newHistory == Append(chordHistory, entry)
              match == IF Len(suggestions) > 0
                       THEN checkSuggestionMatch(degree, suggestions)
                       ELSE <<>>
          IN  /\ chordHistory' = KeepLast(newHistory)
              /\ received' = Append(received, entry)
              /\ IF match # <<>>
                 THEN /\ \E t \in 1..3 :
                            feedbackMessage' = FeedbackMessages(match[1])[t]
                      /\ showFeedback' = TRUE
                      /\ hideDue' = TRUE
                 ELSE UNCHANGED <<feedbackMessage, showFeedback, hideDue>>
    /\ clock' = clock + 1
    /\ effectDue' = TRUE
    /\ UNCHANGED <<callVars, batchVars, suggestions, stats>>

\* The effect on [chordHistory, bpm, onSuggestionHighlight].
UpdateSuggestions ==
    /\ Mounted
    /\ effectDue
    /\ \E bpm \in HostBpms :
          IF Len(chordHistory) = 0
          THEN \E shuffle \in HostShuffles :
                  suggestions' = suggestNextChords(chordHistory, bpm, clock, shuffle,
                                                   [d \in SuggestDegrees |-> 0])
          ELSE \E boosts \in HostBoosts :
                  suggestions' = suggestNextChords(chordHistory, bpm, clock,
                                                   NoShuffle, boosts)
    /\ stats' = IF Len(chordHistory) >= 3
                THEN analyzePlayingPattern(chordHistory)
                ELSE stats
    /\ effectDue' = FALSE
    /\ UNCHANGED <<callVars, batchVars, chordHistory, showFeedback, feedbackMessage,
                   hideDue, clock, received>>

\* handleClearHistory; the new empty array makes the effect run again.
ClearHistory ==
    /\ Mounted
    /\ chordHistory' = <<>>
    /\ suggestions' = <<>>
    /\ stats' = NoStats
    /\ received' = <<>>
    /\ effectDue' = TRUE
    /\ UNCHANGED <<callVars, batchVars, showFeedback, feedbackMessage, hideDue, clock>>

\* setTimeout(() => setShowFeedback(false), 2000); other timers may remain.
HideFeedback ==
    /\ Mounted
    /\ hideDue
    /\ showFeedback' = FALSE
    /\ hideDue' \in BOOLEAN
    /\ UNCHANGED <<callVars, batchVars, chordHistory, suggestions, stats,
                   feedbackMessage, effectDue, clock, received>>

\* The store's bpm changes: the effect runs again.
BpmChanged ==
    /\ Mounted
    /\ ~effectDue
    /\ effectDue' = TRUE
    /\ UNCHANGED <<callVars, batchVars, chordHistory, suggestions, stats,
                   showFeedback, feedbackMessage, hideDue, clock, received>>

NextHost ==
    \/ ChordPlayed
    \/ UpdateSuggestions
    \/ ClearHistory
    \/ HideFeedback
    \/ BpmChanged

SpecHost == InitHost /\ [][NextHost]_vars

InitPads ==
    /\ fn = "pads"
    /\ args = <<>>
    /\ ret = Pending
    /\ BatchIdle
    /\ HostState
    /\ effectDue = TRUE

SpecPads == InitPads /\ [][NextHost]_vars

(***************************************************************************)
(* Calls of generateDensityMap and generatePhraseStructure with arguments  *)
(* from bounded sets: map lengths up to MaxSteps, densities in hundredths, *)
(* and for the 'random' style one Math.random() result for all slots.      *)
(***************************************************************************)
DensityArgs == {0, 10, 25, 30, 50, 60, 75, 90, 100}

InitDensity ==
    /\ \/ /\ fn = "generateDensityMap"
          /\ \E length \in 1..MaxSteps, targetDensity \in DensityArgs,
                rhythmStyle \in RhythmicStyles \cup {UnknownEnum} :
                \E draws \in DensityDraws(rhythmStyle, 1) :
                   args = [length |-> length, targetDensity |-> targetDensity,
                           rhythmStyle |-> rhythmStyle,
                           draws |-> [k \in 1..length |-> draws[1]]]
       \/ /\ fn = "generatePhraseStructure"
          /\ args \in [type : PhraseStructures \cup {UnknownEnum}, slots : 1..MaxSteps]
    /\ ret = Pending
    /\ BatchIdle
    /\ HostIdle

CallGenerateDensityMap ==
    /\ fn = "generateDensityMap"
    /\ ret.status = "pending"
    /\ ret' = Returned(generateDensityMap(args.length, args.targetDensity,
                                          args.rhythmStyle, args.draws))
    /\ UNCHANGED <<fn, args, batchVars, hostVars>>

CallGeneratePhraseStructure ==
    /\ fn = "generatePhraseStructure"
    /\ ret.status = "pending"
    /\ ret' = Returned(generatePhraseStructure(args.type, args.slots))
    /\ UNCHANGED <<fn, args, batchVars, hostVars>>

NextDensity == CallGenerateDensityMap \/ CallGeneratePhraseStructure

SpecDensity == InitDensity /\ [][NextDensity]_vars

\* C11: a run whose rhythmicStyle or phraseStructure is outside the closed
\* enum fails fast: it never gets past its entry, no density map or phrase map
\* is computed from a substituted default and no progression is returned.
C11_InvalidEnumFailsFast ==
    (fn = "batch" /\ (config.rhythmicStyle \notin RhythmicStyles
                        \/ config.phraseStructure \notin PhraseStructures))
        => pc = "start"

\* C12: for every curve type and slots >= 1, slots = 1 included, every tension
\* that generateTensionCurve produced and a generated slot carries is a defined
\* number in [0,1] (a rest carries the curve's value, the target of a chord
\* slot is the curve's value too).
C12_TensionsWithinUnitInterval ==
    fn = "batch" =>
        \A k \in 1..Len(result) :
            /\ tensionValues[k] # NaN
            /\ tensionValues[k] \in 0..100
            /\ result[k].tension # NaN
            /\ result[k].tension \in 0..100

(***************************************************************************)
(* Claims about the suggestion engine, checked under SpecSuggest.          *)
(***************************************************************************)
SuggestCallDone == fn = "suggestNextChords" /\ ret.status = "ok"

DistinctDegrees(s) ==
    \A a, b \in 1..Len(s) : a # b => s[a].degree # s[b].degree

\* C13: with an empty history suggestNextChords returns exactly 3 suggestions
\* of pairwise distinct degrees, each an entry of the 5-entry starter set with
\* that entry's probability, in descending order of probability.
C13_EmptyHistoryThreeStarters ==
    (SuggestCallDone /\ Len(args.history) = 0) =>
        /\ Len(ret.val) = 3
        /\ DistinctDegrees(ret.val)
        /\ \A k \in 1..Len(ret.val) :
              \E o \in 1..5 :
                 /\ ret.val[k].degree = startOptions[o].degree
                 /\ ret.val[k].probability = startOptions[o].probability
        /\ \A k \in 1..(Len(ret.val) - 1) :
              ProbGreater(ret.val[k].probability, ret.val[k + 1].probability)

C13_Witness ==
    /\ SuggestCallDone
    /\ Len(args.history) = 0
    /\ args.shuffle = <<5, 3, 2, 1, 4>>
    /\ Len(ret.val) = 3
    /\ ret.val[1].degree = 4
    /\ ret.val[2].degree = 3
    /\ ret.val[3].degree = 1

\* The suggestions of all seven degrees of the finished call, before the sort
\* and the truncation.
CallDistribution == Normalized(Scores(args.history, args.boosts))

\* C14: with a non-empty history suggestNextChords returns exactly 4
\* suggestions of pairwise distinct degrees, in non-increasing order of
\* probability, no omitted degree more probable than a returned one, equal
\* probabilities in ascending order of degree.
C14_TopFourDescendingStable ==
    (SuggestCallDone /\ Len(args.history) # 0) =>
        /\ Len(ret.val) = 4
        /\ DistinctDegrees(ret.val)
        /\ \A k \in 1..4 : ret.val[k] = CallDistribution[ret.val[k].degree + 1]
        /\ \A k \in 1..3 :
              /\ ~ProbGreater(ret.val[k + 1].probability, ret.val[k].probability)
              /\ ret.val[k + 1].probability = ret.val[k].probability
                    => ret.val[k].degree < ret.val[k + 1].degree
        /\ \A d \in SuggestDegrees :
              (\A k \in 1..4 : ret.val[k].degree # d) =>
                 \A k \in 1..4 :
                    ~ProbGreater(CallDistribution[d + 1].probability,
                                 ret.val[k].probability)

\* A call whose second and third suggestions are equally probable.
C14_Witness ==
    /\ SuggestCallDone
    /\ Len(args.history) # 0
    /\ Len(ret.val) = 4
    /\ \E k \in 1..3 :
          /\ ret.val[k].probability = ret.val[k + 1].probability
          /\ ret.val[k].degree < ret.val[k + 1].degree

RECURSIVE NumSum(_)
NumSum(s) == IF s = <<>> THEN 0 ELSE Head(s).probability.num + NumSum(Tail(s))

\* C15: for a non-empty history the probabilities of the 7 degrees before the
\* truncation are each within [0,1] and sum to 1, and those of the returned
\* top 4 sum to at most 1 (all seven share the denominator totalScore).
C15_ProbabilitiesSumToOne ==
    (SuggestCallDone /\ Len(args.history) # 0) =>
        LET all == CallDistribution
            den == all[1].probability.den
        IN  /\ den > 0
            /\ \A k \in 1..7 :
                  /\ all[k].probability.den = den
                  /\ all[k].probability.num >= 0
                  /\ all[k].probability.num <= den
            /\ NumSum(all) = den
            /\ \A k \in 1..Len(ret.val) : ret.val[k].probability.den = den
            /\ NumSum(ret.val) <= den

C15_Witness ==
    /\ SuggestCallDone
    /\ Len(args.history) = 2
    /\ args.history[1].degree = 0
    /\ args.history[2].degree = 4
    /\ Len(ret.val) = 4
    /\ ret.val[1].degree = 5
    /\ NumSum(ret.val) < ret.val[1].probability.den

\* C16: every returned suggestion, for an empty history too, has category
\* 'strong' exactly when its probability is above 0.3, 'moderate' exactly when
\* it is above 0.15 and at most 0.3, 'adventurous' otherwise.
C16_CategoryFollowsThresholds ==
    SuggestCallDone =>
        \A k \in 1..Len(ret.val) :
            /\ ret.val[k].category = "strong" <=> ProbAbove(ret.val[k].probability, 30)
            /\ ret.val[k].category = "moderate" <=>
                  (ProbAbove(ret.val[k].probability, 15)
                   /\ ~ProbAbove(ret.val[k].probability, 30))
            /\ ret.val[k].category = "adventurous" <=>
                  ~ProbAbove(ret.val[k].probability, 15)

FifthsCallDone == fn = "getCircleOfFifthsBonus" /\ ret.status = "ok"

\* The interval part of the circle-of-fifths bonus as the claim reads it.
C17_IntervalBonus(from, to) ==
    IF (to - from + 7) % 7 = 4 THEN 15000
    ELSE IF (to - from + 7) % 7 = 3 THEN 12000
    ELSE IF Abs(to - from) = 1 THEN 8000
    ELSE 0

\* C17: the +0.10 bonus of a move to the tonic is added independently of the
\* interval bonus: a move into I that is also a fifth up, a fourth up or a
\* step gets the sum of both.
C17_TonicBonusStacks ==
    (FifthsCallDone /\ args.to = 0) =>
        ret.val = C17_IntervalBonus(args.from, args.to) + 10000

\* The degrees of the last two entries of a history, as a history logged at
\* other times.
LastTwoDegrees(history) ==
    [k \in 1..Min(2, Len(history)) |->
        [degree |-> history[Len(history) - Min(2, Len(history)) + k].degree,
         timestamp |-> 1000 * k]]

\* C18: the results a call can return depend on the history only, for a
\* non-empty history on the degrees of its last two entries only: whatever
\* calls came before and whatever bpm and currentTime are passed, the call
\* returns what a call with those degrees, another tempo and another time
\* returns for the same random draws (the draws do not depend on the
\* arguments, so both calls have the same possible results).
C18_ResultsDependOnHistoryOnly ==
    SuggestCallDone =>
        ret.val = suggestNextChords(LastTwoDegrees(args.history), 0, 0 - 1,
                                    args.shuffle, args.boosts)

\* A call at tempo 120 and time 1 for a three-chord history whose first
\* chord differs from its second.
C18_Witness ==
    /\ SuggestCallDone
    /\ Len(args.history) = 3
    /\ args.history[1].degree = 6
    /\ args.history[2].degree = 0
    /\ args.history[3].degree = 4
    /\ args.bpm = 120
    /\ args.currentTime = 1
    /\ ret.val[1].degree = 5

PatternCallDone == fn = "analyzePlayingPattern" /\ ret.status = "ok"

\* The transitions of a history whose 1st-order probability exceeds 0.15.
C19_Matches(history) ==
    {k \in 1..(Len(history) - 1) :
        /\ history[k].degree \in DOMAIN COMMON_PROGRESSIONS
        /\ history[k + 1].degree \in SuggestDegrees
        /\ COMMON_PROGRESSIONS[history[k].degree][history[k + 1].degree + 1] > 15}

\* V, I, V, I, ... in the scale degrees of the data model (1..7: V is 5, I
\* is 1).
C19_AlternatesVI(history) ==
    \A k \in 1..Len(history) :
        history[k].degree = (IF k % 2 = 1 THEN 5 ELSE 1)

\* C19: analyzePlayingPattern returns all zeros for a history of fewer than 3
\* entries; for a longer one predictability is the fraction, within [0,1], of
\* the consecutive transitions whose 1st-order probability exceeds 0.15, and
\* it is 1 for a history that strictly alternates V, I, V, I, ...
C19_PredictabilityOfPattern ==
    PatternCallDone =>
        /\ Len(args.history) < 3 =>
              /\ ret.val.averageTiming.num = 0
              /\ ret.val.consistency = 0
              /\ ret.val.predictability.num = 0
        /\ Len(args.history) >= 3 =>
              /\ ret.val.predictability
                    = Fraction(Cardinality(C19_Matches(args.history)),
                               Len(args.history) - 1)
              /\ ret.val.predictability.num >= 0
              /\ ret.val.predictability.num <= ret.val.predictability.den
              /\ C19_AlternatesVI(args.history) =>
                    ret.val.predictability.num = ret.val.predictability.den

(***************************************************************************)
(* Claims about the ChordSuggestion component.                             *)
(***************************************************************************)
\* The last n entries of s (all of s when it has fewer).
MostRecent(s, n) == SubSeq(s, Len(s) - Min(Len(s), n) + 1, Len(s))

\* C20: after any sequence of chordPlayed events and clears, the history the
\* component hands to the suggestion engine holds at most 20 entries, and
\* they are the most recent events received since the last clear, in arrival
\* order: the 21st event evicts the oldest entry.
C20_HistoryHoldsLastTwenty ==
    fn = "host" =>
        /\ Len(chordHistory) <= 20
        /\ chordHistory = MostRecent(received, 20)

\* Twenty-one events since a clear that followed the first event; the effect
\* has handed the twenty kept entries to the engine.
C20_Witness ==
    /\ fn = "host"
    /\ Len(received) = 21
    /\ received[1].timestamp = 1
    /\ Len(chordHistory) = 20
    /\ chordHistory[1].timestamp = 2
    /\ ~effectDue
    /\ Len(suggestions) = 4

RecentChord(slots, n) ==
    LET filled == ChordsBefore(slots, Len(slots) + 1)
        last == IF filled = {} THEN 0 ELSE Greatest(filled)
        earlier == filled \ {last}
    IN  IF n = 1 THEN (IF last = 0 THEN null ELSE slots[last].degree)
        ELSE IF earlier = {} THEN null ELSE slots[Greatest(earlier)].degree

\* C22: rests do not advance the chord context: at every loop iteration the
\* pair (secondPreviousChord, previousChord) handed to the selection is the
\* degrees of the two most recent non-rest slots emitted so far (null where
\* fewer exist), however many rests lie between them.
C22_RestsKeepChordContext ==
    pc = "loop" =>
        /\ previousChord = RecentChord(result, 1)
        /\ secondPreviousChord = RecentChord(result, 2)

\* Two chords with a rest between them: the context is the two chords.
C22_Witness ==
    /\ pc = "loop"
    /\ Len(result) = 3
    /\ result[1].degree = 4
    /\ result[2].degree = null
    /\ result[3].degree = 1
    /\ previousChord = 1
    /\ secondPreviousChord = 4

\* C23: in a returned progression a slot has duration 2 only if it is a chord,
\* it is not the last slot and the slot after it is a rest; every other slot
\* has duration 1.
C23_LongSlotsPrecedeRests ==
    pc = "done" =>
        \A k \in 1..Len(result) :
            /\ result[k].duration \in {1, 2}
            /\ result[k].duration = 2 =>
                /\ result[k].degree # null
                /\ k < Len(result)
                /\ result[k + 1].degree = null

\* A returned progression whose first chord extends into the rest after it,
\* and whose last chord, with no slot after it, does not.
C23_Witness ==
    /\ pc = "done"
    /\ Len(result) = 3
    /\ result[1].degree # null
    /\ result[1].duration = 2
    /\ result[2].degree = null
    /\ result[3].degree # null
    /\ result[3].duration = 1

(***************************************************************************)
(* Claims about the density map and the phrase structure, checked under    *)
(* SpecDensity.                                                            *)
(***************************************************************************)
DensityCallDone == fn = "generateDensityMap" /\ ret.status = "ok"

\* The integer nearest to length * density (density in hundredths), the
\* upper one of two equally near.
NearestCount(length, density) ==
    CHOOSE n \in 0..length :
        /\ 200 * n - 100 <= 2 * length * density
        /\ 2 * length * density < 200 * n + 100

\* max(1, round(slots * density))
C24_PulseCount(length, density) == Max(1, NearestCount(length, density))

\* C24: for the steady and euclidean styles, slots >= 1 and a density in
\* [0,1], the number of non-rest positions is max(1, round(slots * density)),
\* at most slots: density 0 gives exactly one chord, and slot 0 is a chord.
C24_SteadyChordCount ==
    (DensityCallDone /\ args.rhythmStyle \in {"steady", "euclidean"}) =>
        /\ Len(ret.val) = args.length
        /\ CountTrue(ret.val) =
              Min(args.length, C24_PulseCount(args.length, args.targetDensity))
        /\ ret.val[1] = TRUE

\* Density 0 over sixteen slots: the one chord is at slot 0.
C24_Witness ==
    /\ DensityCallDone
    /\ args.rhythmStyle = "euclidean"
    /\ args.length = 16
    /\ args.targetDensity = 0
    /\ \A k \in 1..16 : ret.val[k] = (k = 1)

\* The template of a style.
C25_Template(rhythmStyle) ==
    IF rhythmStyle = "syncopated" THEN <<1, 3, 6, 9, 11, 13>> ELSE <<0, 4, 8, 12>>

\* The first min(pulseCount, template length) entries of the style's template.
C25_Filled(length, density, rhythmStyle) ==
    LET template == C25_Template(rhythmStyle)
    IN  {template[t] :
            t \in 1..Min(C24_PulseCount(length, density), Len(template))}

\* The non-rest positions of a density map (0-based).
ChordPositions(map) == {k - 1 : k \in {j \in 1..Len(map) : map[j] = TRUE}}

\* C25 as stated: for the syncopated and sparse styles the non-rest positions
\* are exactly the first min(pulseCount, template length) template entries,
\* so the map has exactly that many true entries.
C25_TemplateFilledToPulseCount ==
    (DensityCallDone /\ args.rhythmStyle \in {"syncopated", "sparse"}) =>
        LET filled == C25_Filled(args.length, args.targetDensity, args.rhythmStyle)
        IN  /\ ChordPositions(ret.val) = filled
            /\ CountTrue(ret.val) = Cardinality(filled)

\* C25, amended: the non-rest positions are exactly those of the first
\* min(pulseCount, template length) template entries that lie below slots;
\* the map has at most min(pulseCount, template length) true entries.
C25_TemplateFilledInsideMap ==
    (DensityCallDone /\ args.rhythmStyle \in {"syncopated", "sparse"}) =>
        LET filled == C25_Filled(args.length, args.targetDensity, args.rhythmStyle)
        IN  /\ Len(ret.val) = args.length
            /\ ChordPositions(ret.val) = {q \in filled : q < args.length}
            /\ CountTrue(ret.val) <= Cardinality(filled)

\* Four syncopated slots at density 1: of the four template entries 1, 3, 6,
\* 9 only the two inside the map are chords.
C25_Witness ==
    /\ DensityCallDone
    /\ args.rhythmStyle = "syncopated"
    /\ args.length = 4
    /\ args.targetDensity = 100
    /\ ChordPositions(ret.val) = {1, 3}

PhraseCallDone == fn = "generatePhraseStructure" /\ ret.status = "ok"

\* C27: for every phrase form and every slots >= 1, generatePhraseStructure
\* returns exactly `slots` section ids, one for each slot.
C27_PhraseMapCoversSlots ==
    (PhraseCallDone /\ args.type \in PhraseStructures) =>
        /\ Len(ret.val) = args.slots
        /\ \A k \in 1..Len(ret.val) : ret.val[k] \in Nat

(***************************************************************************)
(* A further claim about generateChord, checked under SpecChords.          *)
(***************************************************************************)
\* The lowest pitch of a chord, and the chord without it.
LowestPitch(notes) ==
    CHOOSE x \in {notes[k] : k \in 1..Len(notes)} :
        \A k \in 1..Len(notes) : x <= notes[k]

WithoutLowest(notes) ==
    LET at == CHOOSE k \in 1..Len(notes) : notes[k] = LowestPitch(notes)
    IN  SubSeq(notes, 1, at - 1) \o SubSeq(notes, at + 1, Len(notes))

\* n rotation steps, each removing the lowest pitch of the chord as it then
\* is and appending it 12 semitones higher.
RECURSIVE DropLowest(_, _)
DropLowest(notes, n) ==
    IF n <= 0 THEN notes
    ELSE DropLowest(Append(WithoutLowest(notes), LowestPitch(notes) + 12), n - 1)

\* C28: for every chord quality and every inversion with 0 < inversion <
\* chord size, each of the `inversion` rotation steps of generateChord removes
\* the lowest pitch of the chord at that step and appends it an octave higher.
C28_InversionMovesLowestPitch ==
    (ChordCallDone /\ ret.status = "ok" /\ args.inversion > 0
     /\ args.inversion < Len(RootPosition)) =>
        ret.val = DropLowest(RootPosition, args.inversion)

\* C major ninth at octave 4 in its highest inversion: four steps, the ninth
\* (74) stays and ends up first, above the tonic moved up (72).
C28_Witness ==
    /\ ChordCallDone
    /\ args = [key |-> "C", scaleDegree |-> 1, chordType |-> "maj9",
               inversion |-> 4, octave |-> 4]
    /\ ret.val = <<74, 72, 76, 79, 83>>

(***************************************************************************)
(* A claim about the pads and the suggestion engine, checked under         *)
(* SpecPads.                                                               *)
(***************************************************************************)
\* C29: every degree the component appends to the chord history, as the
\* pads' chordPlayed events carry it, has a row in the engine's 1st-order
\* table and is a degree the engine can suggest, so the engine never scores a
\* history whose last degree is outside its table.
C29_PadDegreesAreEngineDegrees ==
    fn = "pads" =>
        \A k \in 1..Len(chordHistory) :
            /\ chordHistory[k].degree \in DOMAIN COMMON_PROGRESSIONS
            /\ chordHistory[k].degree \in SuggestDegrees

(***************************************************************************)
(* A further claim about selectChordForTension, checked under SpecSelect.  *)
(***************************************************************************)
\* The degrees with a positive entry in the Markov row the call starts from
\* (I, IV and V when there is no previous chord).
C30_Selectable ==
    LET base == Transitions(args.previousChord, args.secondPreviousChord)
    IN  {d \in DOMAIN base : base[d] > 0}

\* C30: for a numeric target tension, selectChordForTension never returns a
\* degree whose base transition weight is zero or absent while some candidate
\* has a positive weight: the degrees it can return are the nonzero entries of
\* the chosen Markov row.
C30_OnlyWeightedDegreesSelected ==
    (SelectCallDone /\ args.targetTension # NaN /\ C30_Selectable # {}) =>
        /\ ret.status = "ok"
        /\ ret.val \in C30_Selectable

(***************************************************************************)
(* A claim about two runs of generateProceduralProgression, checked under  *)
(* SpecReplay.                                                             *)
(***************************************************************************)
\* C26: the phrase structure does not alter chord choice: two runs whose
\* configs differ only in phraseStructure (any two valid forms), on the same
\* sequence of random draws, return identical slot sequences.
C26_PhraseStructureLeavesSlotsAlone ==
    (fn = "replay" /\ pc = "done" /\ ret.status = "ok") => result = ret.val

\* The second run has returned three slots, two of them chords, under a
\* phrase map that differs from the first run's.
C26_Witness ==
    /\ fn = "replay"
    /\ pc = "done"
    /\ ret.status = "ok"
    /\ config.phraseStructure = args.other
    /\ phraseMap # generatePhraseStructure(args.first, config.slots)
    /\ Len(result) = 3
    /\ Cardinality(ChordsBefore(result, 4)) >= 2
    /\ \E k \in 1..3 : result[k].degree \notin {null, 1}

====
